---------------------------- MODULE Spec2Model ----------------------------
(***************************************************************************)
(* A model of src/clip_finetune.ipynb: the zero-shot classifier            *)
(* CLIPClassifier (prepare_dataset, inference_on_samples, evaluate) and     *)
(* the module-level softmax.                                                *)
(*                                                                          *)
(* Real numbers are exact rationals <<n, d>> in lowest terms with d > 0.    *)
(* The external encoders are functions chosen at construction time (the     *)
(* model weights); their values are picked so that every norm the code      *)
(* takes is an integer and every score is an integer, which keeps the       *)
(* arithmetic of the code exact.                                            *)
(***************************************************************************)
EXTENDS Integers, Sequences, FiniteSets, TLC

VARIABLES
    model,             \* self.model: the text and the image encoder
    dataset,           \* self.dataset: a sequence of records [image, label]
    labels,            \* self.labels
    clip_labels,       \* self.clip_labels
    label_embeddings,  \* self.label_embeddings
    pc,                \* where the script is: new, ready, evaluate, aborted
    batch_size,        \* evaluate: the batch_size argument
    i,                 \* evaluate: the loop variable
    all_predictions,   \* evaluate: local list
    all_labels,        \* evaluate: local list
    all_scores,        \* evaluate: local list
    ret,               \* the value the last call returned
    sm                 \* softmax under test: its argument and its result

vars == <<model, dataset, labels, clip_labels, label_embeddings, pc,
          batch_size, i, all_predictions, all_labels, all_scores, ret,
          sm>>

classifier == <<model, dataset, labels, clip_labels, label_embeddings>>

locals == <<batch_size, i, all_predictions, all_labels, all_scores>>

-----------------------------------------------------------------------------
(* Bounds of the model. *)

\* The longest dataset.
MaxN == 3

\* The largest batch_size argument.
MaxBatch == 3

\* The longest sample_indices argument of inference_on_samples.
MaxSamples == 1

\* The longest score vector softmax is tried on, and the largest score.
MaxLen == 3

MaxScore == 2

\* np.exp is modelled by the exact exponential b^k of an integer base b on
\* integer arguments; the code relies on no property of e beyond those of
\* an exponential.
ExpBase == 2

-----------------------------------------------------------------------------
(* Exact rational arithmetic. *)

Abs(a) == IF a < 0 THEN -a ELSE a

RECURSIVE GCD(_, _)
GCD(a, b) == IF b = 0 THEN a ELSE GCD(b, a % b)

\* The rational n/d (d # 0) in lowest terms with a positive denominator.
Rat(n, d) ==
    LET g == GCD(Abs(n), Abs(d))
        s == IF d < 0 THEN -1 ELSE 1
    IN  <<(s * n) \div g, (s * d) \div g>>

FromInt(k) == <<k, 1>>

RAdd(a, b) == Rat(a[1] * b[2] + b[1] * a[2], a[2] * b[2])

RSub(a, b) == Rat(a[1] * b[2] - b[1] * a[2], a[2] * b[2])

RMul(a, b) == Rat(a[1] * b[1], a[2] * b[2])

RDiv(a, b) == Rat(a[1] * b[2], a[2] * b[1])

RLess(a, b) == a[1] * b[2] < b[1] * a[2]

Zero == FromInt(0)

One == FromInt(1)

RECURSIVE RSum(_)
RSum(s) == IF s = <<>> THEN Zero ELSE RAdd(s[1], RSum(Tail(s)))

RECURSIVE Pow(_, _)
Pow(b, k) == IF k = 0 THEN 1 ELSE b * Pow(b, k - 1)

\* The square root of a perfect square.
ISqrt(n) == CHOOSE r \in 0..n : r * r = n

Range(s) == {s[k] : k \in DOMAIN s}

-----------------------------------------------------------------------------
(* numpy *)

\* np.exp on an integer-valued argument.
Exp(x) == IF x[1] >= 0 THEN <<Pow(ExpBase, x[1]), 1>>
          ELSE <<1, Pow(ExpBase, -x[1])>>

\* np.max of a non-empty vector.
Max(x) == CHOOSE m \in Range(x) : \A v \in Range(x) : ~RLess(m, v)

\* np.argmax had it kept the last of the largest elements.
RECURSIVE ArgmaxLastFrom(_, _, _)
ArgmaxLastFrom(x, k, best) ==
    IF k > Len(x) THEN best
    ELSE ArgmaxLastFrom(x, k + 1, IF RLess(x[k], x[best]) THEN best ELSE k)

ArgmaxLast(x) == ArgmaxLastFrom(x, 2, 1)

\* np.argmax of a non-empty vector, as a 1-based index: the scan keeps the
\* first of the largest elements.
RECURSIVE ArgmaxFrom(_, _, _)
ArgmaxFrom(x, k, best) ==
    IF k > Len(x) THEN best
    ELSE ArgmaxFrom(x, k + 1, IF RLess(x[best], x[k]) THEN k ELSE best)

Argmax(x) == ArgmaxFrom(x, 2, 1)

\* np.dot of two vectors of the same length: a is integer, b is rational.
Dot(a, b) == RSum([d \in DOMAIN a |-> RMul(FromInt(a[d]), b[d])])

\* np.linalg.norm(M, axis=0): one norm per column, taken over the rows.
ColumnNorm(M, d) == ISqrt(LET sq == [r \in DOMAIN M |-> FromInt(M[r][d] * M[r][d])]
                          IN  RSum(sq)[1])

\* M / np.linalg.norm(M, axis=0): every entry divided by its column's norm.
Normalize(M) ==
    [r \in DOMAIN M |->
        [d \in DOMAIN M[r] |-> RDiv(FromInt(M[r][d]), FromInt(ColumnNorm(M, d)))]]

\* softmax had it exponentiated x itself.
SoftmaxExponentsUnshifted(x) == x

\* x - np.max(x): what softmax exponentiates.
SoftmaxExponents(x) == LET m == Max(x) IN [k \in DOMAIN x |-> RSub(x[k], m)]

\* def softmax(x)
softmax(x) ==
    LET args == SoftmaxExponents(x)
        e_x  == [k \in DOMAIN x |-> Exp(args[k])]
        sum  == RSum(e_x)
    IN  [k \in DOMAIN x |-> RDiv(e_x[k], sum)]

-----------------------------------------------------------------------------
(* The data the script works on. *)

\* The class identifiers of the dataset the notebook ran on.
LabelUniverse == {0, 1}

Images == {"imgA", "imgB"}

Records == [image : Images, label : LabelUniverse]

Datasets == UNION {[1..n -> Records] : n \in 0..MaxN}

\* f"a photo of a {label}"
Template(label) == <<"a photo of a", label>>

ClipTexts == {Template(l) : l \in LabelUniverse}

\* The text encoder maps each text to a vector. The vectors are such that
\* the norm of every column of every label matrix is an integer: of the two
\* texts one has 3 and the other 4 in each dimension.
TextVecs == {<<3, 3>>, <<3, 4>>, <<4, 3>>, <<4, 4>>}

TextEncoders ==
    {f \in [ClipTexts -> TextVecs] :
        \A d \in 1..2 : f[Template(0)][d] # f[Template(1)][d]}

\* The image encoder maps each image to a vector (multiples of 5, so that
\* the scores against a normalized label matrix are integers).
ImageVecs == {<<5, 0>>, <<5, 5>>}

\* Two images do not share an embedding; which image has which is a matter
\* of naming, so one assignment is kept.
ImageEncoders ==
    {f \in [Images -> ImageVecs] : f["imgA"] = <<5, 0>> /\ f["imgB"] = <<5, 5>>}

-----------------------------------------------------------------------------
(* CLIPClassifier *)

\* sorted(list(set(s)))
RECURSIVE SortedList(_)
SortedList(S) ==
    IF S = {} THEN <<>>
    ELSE LET m == CHOOSE x \in S : \A y \in S : x <= y
         IN  <<m>> \o SortedList(S \ {m})

\* self.dataset[text_column]
Column(ds) == [k \in DOMAIN ds |-> ds[k].label]

\* The vocabulary had sorted() been left out and the set listed the other
\* way round.
UniqueLabelsUnsorted(ds) ==
    LET sorted == SortedList(Range(Column(ds)))
    IN  [k \in DOMAIN sorted |-> sorted[Len(sorted) + 1 - k]]

\* self.labels = sorted(list(set(self.dataset[text_column])))
UniqueLabels(ds) == SortedList(Range(Column(ds)))

\* The label texts had they been built in another order than the labels.
ClipLabelsReversed(ls) == [k \in DOMAIN ls |-> Template(ls[Len(ls) + 1 - k])]

\* self.clip_labels = [f"a photo of a {label}" for label in self.labels]
ClipLabels(ls) == [k \in DOMAIN ls |-> Template(ls[k])]

\* self.model.get_text_features(**self.label_tokens): one row per text.
get_text_features(m, texts) == [k \in DOMAIN texts |-> m.text[texts[k]]]

\* self.model.get_image_features(image)
get_image_features(m, image) == m.image[image]

\* np.dot(image_embeddings, self.label_embeddings.T) for one image.
Scores(m, image, emb) ==
    [k \in DOMAIN emb |-> Dot(get_image_features(m, image), emb[k])]

None == [kind |-> "none"]

Init ==
    /\ model \in [text : TextEncoders, image : ImageEncoders]
    /\ dataset = <<>>
    /\ labels = <<>>
    /\ clip_labels = <<>>
    /\ label_embeddings = <<>>
    /\ pc = "new"
    /\ batch_size = 0
    /\ i = 0
    /\ all_predictions = <<>>
    /\ all_labels = <<>>
    /\ all_scores = <<>>
    /\ ret = None
    /\ sm = None

\* prepare_dataset(): the dataset is loaded, the vocabulary and the label
\* matrix are computed.
PrepareDataset(ds) ==
    /\ pc = "new"
    /\ dataset' = ds
    /\ labels' = UniqueLabels(ds)
    /\ clip_labels' = ClipLabels(labels')
    /\ label_embeddings' = Normalize(get_text_features(model, clip_labels'))
    /\ pc' = "ready"
    /\ UNCHANGED <<model, locals, ret, sm>>

\* One entry of the list inference_on_samples returns, for the 0-based
\* index idx of a sample.
SampleResult(idx) ==
    LET sample            == dataset[idx + 1]
        scores            == Scores(model, sample.image, label_embeddings)
        pred_idx          == Argmax(scores)
        confidence_scores == softmax(scores)
    IN  [index           |-> idx,
         true_label      |-> sample.label,
         predicted_label |-> labels[pred_idx],
         confidence      |-> confidence_scores[pred_idx],
         all_scores      |-> [l \in Range(labels) |->
                                 LET k == CHOOSE k \in DOMAIN labels : labels[k] = l
                                 IN  confidence_scores[k]]]

Raised == [kind |-> "raised"]

\* inference_on_samples(sample_indices): every sample is scored in turn;
\* self.dataset[idx] raises for an index past the end.
InferenceOnSamples(sample_indices) ==
    /\ pc = "ready"
    /\ IF \A k \in DOMAIN sample_indices : sample_indices[k] < Len(dataset)
       THEN /\ ret' = [kind    |-> "samples",
                       results |-> [k \in DOMAIN sample_indices |->
                                       SampleResult(sample_indices[k])]]
            /\ pc' = "ready"
       ELSE /\ ret' = Raised
            /\ pc' = "aborted"
    /\ UNCHANGED <<classifier, locals, sm>>

\* inference_on_samples(sample_indices) when the processor or the encoder
\* raises on a sample: the error propagates.
InferenceRaises ==
    /\ pc = "ready"
    /\ Len(dataset) > 0
    /\ ret' = Raised
    /\ pc' = "aborted"
    /\ UNCHANGED <<classifier, locals, sm>>

SampleIndices == UNION {[1..n -> 0..(MaxN - 1)] : n \in 0..MaxSamples}

-----------------------------------------------------------------------------
(* evaluate *)

\* evaluate had it rebound self.labels on entry.
EvaluateCallReversesLabels(bs) ==
    /\ pc = "ready"
    /\ batch_size' = bs
    /\ i' = 0
    /\ all_predictions' = <<>>
    /\ all_labels' = <<>>
    /\ all_scores' = <<>>
    /\ ret' = None
    /\ pc' = "evaluate"
    /\ labels' = [k \in DOMAIN labels |-> labels[Len(labels) + 1 - k]]
    /\ UNCHANGED <<model, dataset, clip_labels, label_embeddings, sm>>

\* evaluate(batch_size): the locals are initialised.
EvaluateCall(bs) ==
    /\ pc = "ready"
    /\ batch_size' = bs
    /\ i' = 0
    /\ all_predictions' = <<>>
    /\ all_labels' = <<>>
    /\ all_scores' = <<>>
    /\ ret' = None
    /\ pc' = "evaluate"
    /\ UNCHANGED <<classifier, sm>>

\* i_end had the loop dropped a last batch that is not full.
IEndDropsLast == IF i + batch_size <= Len(dataset) THEN i + batch_size ELSE i

\* i_end = min(i + batch_size, len(self.dataset))
IEnd == IF i + batch_size < Len(dataset) THEN i + batch_size ELSE Len(dataset)

\* batch = self.dataset[i:i_end]
Batch == SubSeq(dataset, i + 1, IEnd)

\* scores = np.dot(image_embeddings, self.label_embeddings.T)
BatchScores(batch) ==
    [k \in DOMAIN batch |-> Scores(model, batch[k].image, label_embeddings)]

\* predictions = np.argmax(scores, axis=1)
BatchPredictions(scores) == [k \in DOMAIN scores |-> Argmax(scores[k])]

\* One pass of the loop body of evaluate.
EvaluateBatch ==
    /\ pc = "evaluate"
    /\ i < Len(dataset)
    /\ LET batch       == Batch
           scores      == BatchScores(batch)
           predictions == BatchPredictions(scores)
       IN  /\ all_predictions' = all_predictions \o
                                   [k \in DOMAIN predictions |-> labels[predictions[k]]]
           /\ all_labels' = all_labels \o Column(batch)
           /\ all_scores' = all_scores \o scores
    /\ i' = i + batch_size
    /\ UNCHANGED <<classifier, batch_size, pc, ret, sm>>

\* evaluate had it caught the error of a pass and gone on to the next batch.
EvaluateRaisesSkips ==
    /\ pc = "evaluate"
    /\ i < Len(dataset)
    /\ i' = i + batch_size
    /\ UNCHANGED <<classifier, batch_size, all_predictions, all_labels,
                   all_scores, pc, ret, sm>>

\* The processor or the encoder raises in a pass of the loop: the error
\* leaves evaluate, whose locals are gone.
EvaluateRaises ==
    /\ pc = "evaluate"
    /\ i < Len(dataset)
    /\ ret' = Raised
    /\ pc' = "aborted"
    /\ UNCHANGED <<classifier, locals, sm>>

-----------------------------------------------------------------------------
(* sklearn.metrics, as evaluate uses it *)

\* (mask).sum(): the number of TRUE entries of a boolean array.
RECURSIVE CountTrue(_)
CountTrue(mask) ==
    IF mask = <<>> THEN 0
    ELSE (IF mask[1] THEN 1 ELSE 0) + CountTrue(Tail(mask))

\* unique_labels(y_true, y_pred): the labels present, sorted.
unique_labels(y_true, y_pred) == SortedList(Range(y_true) \cup Range(y_pred))

tp_sum(y_true, y_pred, c) ==
    CountTrue([k \in DOMAIN y_true |-> y_true[k] = c /\ y_pred[k] = c])

pred_sum(y_true, y_pred, c) ==
    CountTrue([k \in DOMAIN y_pred |-> y_pred[k] = c])

true_sum(y_true, y_pred, c) ==
    CountTrue([k \in DOMAIN y_true |-> y_true[k] = c])

\* _prf_divide: a ratio whose denominator is zero is 0 (zero_division).
PrfDivide(n, d) == IF d = 0 THEN Zero ELSE Rat(n, d)

ClassPrecision(y_true, y_pred, c) ==
    PrfDivide(tp_sum(y_true, y_pred, c), pred_sum(y_true, y_pred, c))

ClassRecall(y_true, y_pred, c) ==
    PrfDivide(tp_sum(y_true, y_pred, c), true_sum(y_true, y_pred, c))

\* The F1 of a class with the factor 2 of the harmonic mean left out.
ClassF1Halved(y_true, y_pred, c) ==
    LET p == ClassPrecision(y_true, y_pred, c)
        r == ClassRecall(y_true, y_pred, c)
        d == RAdd(p, r)
    IN  IF d = Zero THEN Zero ELSE RDiv(RMul(p, r), d)

ClassF1(y_true, y_pred, c) ==
    LET p == ClassPrecision(y_true, y_pred, c)
        r == ClassRecall(y_true, y_pred, c)
        d == RAdd(p, r)
    IN  IF d = Zero THEN Zero ELSE RDiv(RMul(FromInt(2), RMul(p, r)), d)

\* The weight of class c had every class counted the same.
UnitWeight(y_true, y_pred, c) == 1

\* The weight of class c under average='weighted': its support.
WeightedWeight(y_true, y_pred, c) == true_sum(y_true, y_pred, c)

\* The weight of class c under average='macro'.
MacroWeight(y_true, y_pred, c) == 1

\* np.average(values, weights=weights): one value and one weight per class
\* present.
Average(values, weights) ==
    LET total == RSum([k \in DOMAIN weights |-> FromInt(weights[k])])
        dot   == RSum([k \in DOMAIN values |-> RMul(FromInt(weights[k]), values[k])])
    IN  IF total = Zero THEN Zero ELSE RDiv(dot, total)

\* precision_recall_fscore_support had it been called with average='macro'.
PrfsMacro(y_true, y_pred) ==
    LET classes == unique_labels(y_true, y_pred)
        W == [k \in DOMAIN classes |-> MacroWeight(y_true, y_pred, classes[k])]
        P == [k \in DOMAIN classes |-> ClassPrecision(y_true, y_pred, classes[k])]
        R == [k \in DOMAIN classes |-> ClassRecall(y_true, y_pred, classes[k])]
        F == [k \in DOMAIN classes |-> ClassF1(y_true, y_pred, classes[k])]
    IN  [precision |-> Average(P, W),
         recall    |-> Average(R, W),
         f1        |-> Average(F, W)]

\* precision_recall_fscore_support(y_true, y_pred, average='weighted'):
\* (precision, recall, f1); the fourth value is None.
precision_recall_fscore_support(y_true, y_pred) ==
    LET classes == unique_labels(y_true, y_pred)
        W == [k \in DOMAIN classes |-> WeightedWeight(y_true, y_pred, classes[k])]
        P == [k \in DOMAIN classes |-> ClassPrecision(y_true, y_pred, classes[k])]
        R == [k \in DOMAIN classes |-> ClassRecall(y_true, y_pred, classes[k])]
        F == [k \in DOMAIN classes |-> ClassF1(y_true, y_pred, classes[k])]
    IN  [precision |-> Average(P, W),
         recall    |-> Average(R, W),
         f1        |-> Average(F, W)]

\* The accuracy had the comparison been !=.
AccuracyMismatch(y_true, y_pred) ==
    Rat(CountTrue([k \in DOMAIN y_pred |-> y_pred[k] # y_true[k]]), Len(y_pred))

\* np.mean(np.array(all_predictions) == np.array(all_labels))
Accuracy(y_true, y_pred) ==
    Rat(CountTrue([k \in DOMAIN y_pred |-> y_pred[k] = y_true[k]]), Len(y_pred))

\* The row of classification_report for the k-th class present.
ReportRow(y_true, y_pred, c) ==
    [precision |-> ClassPrecision(y_true, y_pred, c),
     recall    |-> ClassRecall(y_true, y_pred, c),
     f1_score  |-> ClassF1(y_true, y_pred, c),
     support   |-> true_sum(y_true, y_pred, c)]

\* classification_report(y_true, y_pred, target_names=..., output_dict=True):
\* the k-th target name is given the row of the k-th class present; the
\* call raises when the two differ in number.
classification_report(y_true, y_pred, target_names) ==
    LET classes == unique_labels(y_true, y_pred)
        W == [k \in DOMAIN classes |-> WeightedWeight(y_true, y_pred, classes[k])]
        M == [k \in DOMAIN classes |-> MacroWeight(y_true, y_pred, classes[k])]
        P == [k \in DOMAIN classes |-> ClassPrecision(y_true, y_pred, classes[k])]
        R == [k \in DOMAIN classes |-> ClassRecall(y_true, y_pred, classes[k])]
        F == [k \in DOMAIN classes |-> ClassF1(y_true, y_pred, classes[k])]
    IN  IF Len(classes) # Len(target_names) THEN Raised
        ELSE [kind |-> "report",
              rows |-> [n \in Range(target_names) |->
                          LET k == CHOOSE k \in DOMAIN target_names :
                                       /\ target_names[k] = n
                                       /\ \A j \in DOMAIN target_names :
                                              target_names[j] = n => j <= k
                          IN  ReportRow(y_true, y_pred, classes[k])],
              accuracy     |-> Accuracy(y_true, y_pred),
              macro_avg    |-> [precision |-> Average(P, M),
                                recall    |-> Average(R, M),
                                f1_score  |-> Average(F, M),
                                support   |-> Len(y_true)],
              weighted_avg |-> [precision |-> Average(P, W),
                                recall    |-> Average(R, W),
                                f1_score  |-> Average(F, W),
                                support   |-> Len(y_true)]]

\* The end of evaluate on a dataset with samples: the metrics are computed
\* and the result is returned (the plots it saves on the way are files of
\* the working directory, which the model leaves out).
EvaluateReturn ==
    /\ pc = "evaluate"
    /\ i >= Len(dataset)
    /\ Len(dataset) > 0
    /\ LET prf    == precision_recall_fscore_support(all_labels, all_predictions)
           report == classification_report(all_labels, all_predictions, labels)
       IN  IF report = Raised
           THEN /\ ret' = Raised
                /\ pc' = "aborted"
                /\ UNCHANGED locals
           ELSE /\ ret' = [kind            |-> "evaluation",
                           metrics         |-> [accuracy  |-> Accuracy(all_labels, all_predictions),
                                                precision |-> prf.precision,
                                                recall    |-> prf.recall,
                                                f1_score  |-> prf.f1],
                           detailed_report |-> report,
                           predictions     |-> all_predictions,
                           true_labels     |-> all_labels,
                           raw_scores      |-> all_scores]
                /\ pc' = "ready"
                /\ batch_size' = 0
                /\ i' = 0
                /\ all_predictions' = <<>>
                /\ all_labels' = <<>>
                /\ all_scores' = <<>>
    /\ UNCHANGED <<classifier, sm>>

\* The end of evaluate on an empty dataset: confusion_matrix refuses an
\* empty list of labels, and the error leaves evaluate.
EvaluateEmpty ==
    /\ pc = "evaluate"
    /\ i >= Len(dataset)
    /\ Len(dataset) = 0
    /\ ret' = Raised
    /\ pc' = "aborted"
    /\ UNCHANGED <<classifier, locals, sm>>

Next ==
    \/ \E ds \in Datasets : PrepareDataset(ds)
    \/ \E s \in SampleIndices : InferenceOnSamples(s)
    \/ InferenceRaises
    \/ \E bs \in 1..MaxBatch : EvaluateCall(bs)
    \/ EvaluateBatch
    \/ EvaluateRaises
    \/ EvaluateReturn
    \/ EvaluateEmpty

Spec == Init /\ [][Next]_vars

-----------------------------------------------------------------------------
(* softmax on its own: it is applied once to a vector of integer scores. *)

ScoreVectors ==
    UNION {[1..n -> {FromInt(v) : v \in (-MaxScore)..MaxScore}] : n \in 1..MaxLen}

SoftmaxApply(x) ==
    /\ pc = "new"
    /\ sm = None
    /\ sm' = [kind |-> "softmax",
              x    |-> x,
              args |-> SoftmaxExponents(x),
              out  |-> softmax(x)]
    /\ UNCHANGED <<classifier, pc, locals, ret>>

SoftmaxNext == \E x \in ScoreVectors : SoftmaxApply(x)

SoftmaxSpec == Init /\ [][SoftmaxNext]_vars

-----------------------------------------------------------------------------
(* What the properties below are stated with. *)

Min(a, b) == IF a < b THEN a ELSE b

N == Len(dataset)

\* The indices of the largest entries of a row, and the least of a set.
Largest(row) == {j \in DOMAIN row : \A k \in DOMAIN row : ~RLess(row[j], row[k])}

Least(S) == CHOOSE m \in S : \A n \in S : m <= n

\* The scores of the k-th sample of the dataset against the label matrix.
ScoreRow(k) ==
    [j \in DOMAIN label_embeddings |->
        Dot(model.image[dataset[k].image], label_embeddings[j])]

\* The sum of the values of a function on a finite set.
RECURSIVE RSumOver(_)
RSumOver(f) ==
    IF DOMAIN f = {} THEN Zero
    ELSE LET c == CHOOSE c \in DOMAIN f : TRUE
         IN  RAdd(f[c], RSumOver([d \in DOMAIN f \ {c} |-> f[d]]))

\* The positions of a sequence that hold c.
At(seq, c) == {k \in DOMAIN seq : seq[k] = c}

Evaluated == ret.kind = "evaluation"

Sampled == ret.kind = "samples"

\* C1: evaluate visits consecutive, disjoint batches that cover every index
\* once: after each batch the predictions and the true labels have the same
\* length min(i_end, N), position k holding those of sample k, and on
\* return both have length N.
C1_BatchesCoverDataset ==
    /\ pc = "evaluate" =>
        /\ i % batch_size = 0
        /\ i < N + batch_size
        /\ Len(all_predictions) = Min(i, N)
        /\ Len(all_labels) = Min(i, N)
        /\ \A k \in 1..Min(i, N) :
            /\ all_labels[k] = dataset[k].label
            /\ all_predictions[k] = labels[Least(Largest(ScoreRow(k)))]
    /\ Evaluated =>
        /\ Len(ret.predictions) = N
        /\ Len(ret.true_labels) = N
        /\ \A k \in 1..N :
            /\ ret.true_labels[k] = dataset[k].label
            /\ ret.predictions[k] = labels[Least(Largest(ScoreRow(k)))]

\* A dataset of 3 samples in batches of 2: the second batch is not full.
C1_Witness ==
    /\ pc = "evaluate"
    /\ N = 3
    /\ batch_size = 2
    /\ i = 4
    /\ Len(all_predictions) = 3

\* C2: row r of the label matrix is the (column-normalized) embedding of the
\* text of labels[r]; the predicted label is the label at an arg-max index
\* of the scores against that matrix, the confidence is the probability at
\* that index, and all_scores maps labels[j] to the probability at j.
C2_RowsMatchVocabulary ==
    /\ pc # "new" =>
        /\ Len(label_embeddings) = Len(labels)
        /\ \A r \in DOMAIN labels : \A d \in 1..2 :
            LET Raw(l) == model.text[Template(l)][d]
                sumsq  == RSumOver([l \in Range(labels) |-> FromInt(Raw(l) * Raw(l))])[1]
            IN  \E n \in 1..sumsq :
                    /\ n * n = sumsq
                    /\ RMul(label_embeddings[r][d], FromInt(n)) = FromInt(Raw(labels[r]))
    /\ Evaluated =>
        \A k \in 1..N :
            /\ ret.raw_scores[k] = ScoreRow(k)
            /\ \E a \in Largest(ScoreRow(k)) : ret.predictions[k] = labels[a]
    /\ Sampled =>
        \A n \in DOMAIN ret.results :
            LET r    == ret.results[n]
                row  == ScoreRow(r.index + 1)
                prob == softmax(row)
            IN  /\ \E a \in Largest(row) :
                       /\ r.predicted_label = labels[a]
                       /\ r.confidence = prob[a]
                /\ DOMAIN r.all_scores = Range(labels)
                /\ \A j \in DOMAIN labels : r.all_scores[labels[j]] = prob[j]

\* A sample of a two-label dataset is scored, and the second label wins.
C2_Witness ==
    /\ Sampled
    /\ Len(labels) = 2
    /\ \E n \in DOMAIN ret.results : ret.results[n].predicted_label = labels[2]

\* C3: of several labels that share the largest score the one of the
\* lowest index is predicted, by evaluate and by inference_on_samples.
C3_TiesTakeLowestIndex ==
    /\ pc = "evaluate" =>
        \A k \in DOMAIN all_scores :
            all_predictions[k] = labels[Least(Largest(all_scores[k]))]
    /\ Evaluated =>
        \A k \in DOMAIN ret.raw_scores :
            ret.predictions[k] = labels[Least(Largest(ret.raw_scores[k]))]
    /\ Sampled =>
        \A n \in DOMAIN ret.results :
            ret.results[n].predicted_label =
                labels[Least(Largest(ScoreRow(ret.results[n].index + 1)))]

\* evaluate has returned and a sample had the same score for both labels.
C3_Witness ==
    /\ Evaluated
    /\ \E k \in DOMAIN ret.raw_scores :
        /\ Len(ret.raw_scores[k]) = 2
        /\ ret.raw_scores[k][1] = ret.raw_scores[k][2]
        /\ ret.predictions[k] = labels[1]

\* C4: the report evaluate returns has a row for every label of the
\* vocabulary, and the row of a label holds the statistics of that label:
\* its support is the number of true instances of it.
C4_ReportCoversVocabulary ==
    Evaluated =>
        LET rep == ret.detailed_report
        IN  /\ rep.kind = "report"
            /\ DOMAIN rep.rows = Range(labels)
            /\ \A l \in Range(labels) :
                LET T  == At(ret.true_labels, l)
                    P  == At(ret.predictions, l)
                    TP == Cardinality(T \cap P)
                IN  /\ rep.rows[l].support = Cardinality(T)
                    /\ rep.rows[l].precision =
                           (IF P = {} THEN Zero ELSE Rat(TP, Cardinality(P)))
                    /\ rep.rows[l].recall =
                           (IF T = {} THEN Zero ELSE Rat(TP, Cardinality(T)))
                    /\ rep.rows[l].f1_score =
                           (IF T \cup P = {} THEN Zero
                            ELSE Rat(2 * TP, Cardinality(T) + Cardinality(P)))

\* The second label occurs only in the last sample, so not in a first batch,
\* and is never predicted.
C4_Witness ==
    /\ Evaluated
    /\ ret.true_labels = <<0, 0, 1>>
    /\ At(ret.predictions, 1) = {}
    /\ ret.detailed_report.rows[1].support = 1

\* C5: when every prediction is the true label, of a dataset with samples,
\* accuracy, precision, recall and f1 are all 1.
C5_PerfectPredictions ==
    (Evaluated /\ ret.predictions = ret.true_labels) =>
        /\ ret.metrics.accuracy = One
        /\ ret.metrics.precision = One
        /\ ret.metrics.recall = One
        /\ ret.metrics.f1_score = One

\* Every sample of a two-label dataset is predicted right.
C5_Witness ==
    /\ Evaluated
    /\ Len(labels) = 2
    /\ ret.predictions = ret.true_labels

\* C6: the accuracy is the number of positions whose prediction is the true
\* label, over N; it is 0 when every prediction is wrong, and 3/4 for the
\* true labels 0 1 0 1 predicted 0 1 1 1.
C6_AccuracyIsMatchFraction ==
    Evaluated =>
        LET matches == {k \in 1..N : ret.predictions[k] = ret.true_labels[k]}
        IN  /\ ret.metrics.accuracy = Rat(Cardinality(matches), N)
            /\ matches = {} => ret.metrics.accuracy = Zero
            /\ Accuracy(<<0, 1, 0, 1>>, <<0, 1, 1, 1>>) = Rat(3, 4)

\* Two labels, and one prediction of three is wrong.
C6_Witness ==
    /\ Evaluated
    /\ Len(labels) = 2
    /\ ret.metrics.accuracy = Rat(2, 3)

\* C7: precision, recall and f1 are the per-class values averaged with the
\* support of each class as its weight, over the classes that occur; a
\* class that is never predicted has precision 0.
C7_SupportWeightedAverages ==
    Evaluated =>
        LET t        == ret.true_labels
            p        == ret.predictions
            classes  == Range(t) \cup Range(p)
            S(c)     == Cardinality(At(t, c))
            Q(c)     == Cardinality(At(p, c))
            TP(c)    == Cardinality(At(t, c) \cap At(p, c))
            Prec(c)  == IF Q(c) = 0 THEN Zero ELSE Rat(TP(c), Q(c))
            Rec(c)   == IF S(c) = 0 THEN Zero ELSE Rat(TP(c), S(c))
            F(c)     == IF S(c) + Q(c) = 0 THEN Zero ELSE Rat(2 * TP(c), S(c) + Q(c))
            WPrec    == [c \in classes |-> RMul(FromInt(S(c)), Prec(c))]
            WRec     == [c \in classes |-> RMul(FromInt(S(c)), Rec(c))]
            WF       == [c \in classes |-> RMul(FromInt(S(c)), F(c))]
        IN  /\ RMul(ret.metrics.precision, FromInt(N)) = RSumOver(WPrec)
            /\ RMul(ret.metrics.recall, FromInt(N)) = RSumOver(WRec)
            /\ RMul(ret.metrics.f1_score, FromInt(N)) = RSumOver(WF)

\* Two classes of different support, one of them never predicted.
C7_Witness ==
    /\ Evaluated
    /\ Cardinality(At(ret.true_labels, 0)) = 2
    /\ Cardinality(At(ret.true_labels, 1)) = 1
    /\ At(ret.predictions, 1) = {}

\* C8: the values of softmax add up to 1, softmax is the same on a vector
\* and on the vector with a constant added to every element, and what is
\* exponentiated is the vector less its maximum.
C8_SoftmaxSumAndShift ==
    sm.kind = "softmax" =>
        /\ RSum(sm.out) = One
        /\ \A c \in (-MaxScore)..MaxScore :
            softmax([k \in DOMAIN sm.x |-> RAdd(sm.x[k], FromInt(c))]) = sm.out
        /\ \A k \in DOMAIN sm.x :
            /\ ~RLess(Zero, sm.args[k])
            /\ \E m \in DOMAIN sm.x :
                /\ \A j \in DOMAIN sm.x : ~RLess(sm.x[m], sm.x[j])
                /\ sm.args[k] = RSub(sm.x[k], sm.x[m])

\* softmax of three different scores, the largest of them positive.
C8_Witness ==
    /\ sm.kind = "softmax"
    /\ sm.x = <<FromInt(1), FromInt(-1), FromInt(2)>>

\* C9: evaluate returns a result only once every batch is scored; an error
\* in a batch leaves evaluate with no result, and the run goes no further:
\* the batch is not tried again and no later batch is scored.
C9_AllOrNothing ==
    [][/\ (ret'.kind = "evaluation" /\ ret' # ret) =>
            /\ pc = "evaluate"
            /\ i >= N
            /\ Len(all_predictions) = N
            /\ ret'.predictions = all_predictions
            /\ ret'.true_labels = all_labels
       /\ (pc = "evaluate" /\ pc' = "evaluate") =>
            Len(all_predictions') = Min(i', N)
       /\ (pc = "evaluate" /\ pc' = "aborted") => ret' = Raised
       /\ pc # "aborted"]_vars

\* An error in the second batch: the first batch was scored, nothing is
\* returned.
C9_Witness ==
    /\ pc = "aborted"
    /\ i > 0
    /\ i < N
    /\ Len(all_predictions) = i
    /\ ret = Raised

\* C10: once prepare_dataset has run, no call of evaluate or of
\* inference_on_samples changes the vocabulary, the label texts or the
\* label matrix.
C10_VocabularyReadOnly ==
    [][pc # "new" => UNCHANGED <<labels, clip_labels, label_embeddings>>]_vars

\* inference_on_samples has scored a sample of a two-label dataset, and the
\* label matrix is still the one prepare_dataset computed.
C10_Witness ==
    /\ Sampled
    /\ Len(labels) = 2
    /\ Len(ret.results) > 0
    /\ label_embeddings = Normalize(get_text_features(model, clip_labels))

\* C11: the recall evaluate returns (weighted by support) is the accuracy
\* it returns: both are the number of samples predicted right, over N.
C11_WeightedRecallIsAccuracy ==
    Evaluated =>
        LET matches == {k \in 1..N : ret.predictions[k] = ret.true_labels[k]}
        IN  /\ ret.metrics.recall = ret.metrics.accuracy
            /\ RMul(ret.metrics.recall, FromInt(N)) = FromInt(Cardinality(matches))

\* Two classes of different support and different recall, so that the
\* unweighted mean of the recalls is not the accuracy.
C11_Witness ==
    /\ Evaluated
    /\ Len(labels) = 2
    /\ ret.metrics.accuracy = Rat(1, 3)
    /\ ret.detailed_report.macro_avg.recall # ret.metrics.accuracy
    /\ ret.detailed_report.rows[0].recall # ret.detailed_report.rows[1].recall

=============================================================================
